---- MODULE Spec2Model ----
(***************************************************************************)
(* A model of LocalFirstAuthProvider                                       *)
(* (packages/automerge-repo-auth-localfirst/src/LocalFirstAuthProvider.ts) *)
(* One provider instance, the base adapters it wraps, the Auth.Connection  *)
(* objects it constructs, and the async activations (suspended at an       *)
(* await) of its handlers.  The handshake engine, the base adapters, the   *)
(* repository and the store are the environment: their events and calls    *)
(* are the nondeterministic inputs of the actions.                         *)
(***************************************************************************)
EXTENDS Integers, Sequences, FiniteSets, TLC

\* ------------------------------------------------------------------ bounds
Shares == {"s1", "s2"}
Peers == {"p1", "p2"}
BaseAdapters == {"a1", "a2"}
\* the adapter of the one-adapter environments
OneAdapter == {"a1"}
Docs == {"d1"}

\* Auth.Connection objects constructed in one behaviour
MaxConns == 2
\* auth frames received in one behaviour (payloads are numbered by arrival)
MaxFrames == 2
\* handler activations suspended at an await at the same time
MaxTasks == 2

\* baseAdapter.peerId, the id under which the peers know this device, and the
\* values config.device.userId may have: that id or another string
BasePeerId == "me"
UserIds == {BasePeerId, "u1"}
NoKey == 0

\* Session keys, ordered as localeCompare orders them
SessionKeys == 1..MaxConns

VARIABLES
  device,        \* #device.userId
  adapters,      \* #adapters: the wrapped base adapters, in wrap order
  user,          \* #user is set
  shares,        \* Object.keys(#shares), in insertion order
  invitations,   \* #invitations: <<[shareId, kind]>>, in insertion order
  connRec,       \* the shareIds s for which #connections[s] is an object
  conn,          \* #connections[s][p]: a connection id, 0 when absent
  conns,         \* the Auth.Connection objects constructed so far
  messageStore,  \* #messageStore[s][p]
  peers,         \* #peers: base adapter -> known peer ids, in arrival order
  tasks,         \* handler activations suspended at an await
  store,         \* the storage adapter's value under ["AuthProvider","shares"]
  loaded,        \* the constructor's #loadState() has completed
  out,           \* what the last step emitted, sent or threw, in order
  announced,     \* history: <<adapter, peer>> with a peer-candidate emitted upward
  nFrames,       \* history: auth frames received so far
  undelivered,   \* history: per pair, payloads received and handed to no connection
  closed         \* history: the base adapters that have emitted close

vars == <<device, adapters, user, shares, invitations, connRec, conn, conns, messageStore,
          peers, tasks, store, loaded, out, announced, nFrames, undelivered,
          closed>>

\* ----------------------------------------------------------------- helpers
Range(q) == {q[i] : i \in 1..Len(q)}

RECURSIVE Without(_, _)
Without(q, x) ==
  IF q = <<>> THEN <<>>
  ELSE IF Head(q) = x THEN Without(Tail(q), x)
  ELSE <<Head(q)>> \o Without(Tail(q), x)

IsPrefix(a, b) == Len(a) <= Len(b) /\ SubSeq(b, 1, Len(a)) = a

\* The state as one value, so that a handler can call another.
St ==
  [device |-> device, adapters |-> adapters, user |-> user, shares |-> shares,
   invitations |-> invitations, connRec |-> connRec, conn |-> conn,
   conns |-> conns, messageStore |-> messageStore, peers |-> peers,
   tasks |-> tasks, store |-> store, loaded |-> loaded, out |-> <<>>,
   announced |-> announced, nFrames |-> nFrames, undelivered |-> undelivered,
   closed |-> closed]

Commit(S) ==
  /\ Len(S.conns) <= MaxConns
  /\ Cardinality(S.tasks) <= MaxTasks
  /\ device' = S.device
  /\ adapters' = S.adapters
  /\ user' = S.user
  /\ shares' = S.shares
  /\ invitations' = S.invitations
  /\ connRec' = S.connRec
  /\ conn' = S.conn
  /\ conns' = S.conns
  /\ messageStore' = S.messageStore
  /\ peers' = S.peers
  /\ tasks' = S.tasks
  /\ store' = S.store
  /\ loaded' = S.loaded
  /\ out' = S.out
  /\ announced' = S.announced
  /\ nFrames' = S.nFrames
  /\ undelivered' = S.undelivered
  /\ closed' = S.closed

\* ------------------------------------------------------------------ values
NullMsg == [type |-> "none", senderId |-> "", targetId |-> "", documentId |-> ""]
NoCipher == [key |-> NoKey, msg |-> NullMsg]

\* RepoMessage (messages.ts): a sync message
SyncMessage(from, to, d) ==
  [type |-> "sync", senderId |-> from, targetId |-> to, documentId |-> d]

Frame(type, from, to, s, payload, cipher, d) ==
  [type |-> type, senderId |-> from, targetId |-> to, shareId |-> s,
   payload |-> payload, encryptedMessage |-> cipher, documentId |-> d]

NoFrame == Frame("none", "", "", "", 0, NoCipher, "")

isAuthMessage(f) == f.type = "auth"
isEncryptedMessage(f) == f.type = "encrypted"
isSyncMessage(f) == f.type = "sync"

\* Auth.symmetric: a ciphertext opens only under the key that sealed it
encrypt(m, k) == [key |-> k, msg |-> m]
decrypt(c, k) ==
  IF k # NoKey /\ c.key = k THEN [ok |-> TRUE, msg |-> c.msg]
  ELSE [ok |-> FALSE, msg |-> NullMsg]

Ev(ev, a, s, p, info) ==
  [ev |-> ev, adapter |-> a, share |-> s, peer |-> p, info |-> info,
   num |-> 0, msg |-> NullMsg, frame |-> NoFrame]

Emit(S, e) == [S EXCEPT !.out = Append(@, e)]

NoTask ==
  [kind |-> "none", share |-> "", adapter |-> "", peer |-> "", ai |-> 0, pi |-> 0,
   todo |-> <<>>, cur |-> 0, c |-> 0, blob |-> <<>>]

\* -------------------------------------------------------------- registries
InvitationIds(S) == [i \in 1..Len(S.invitations) |-> S.invitations[i].shareId]

InvitationKind(S, s) ==
  LET hit == {i \in 1..Len(S.invitations) : S.invitations[i].shareId = s}
  IN  IF hit = {} THEN "none" ELSE S.invitations[CHOOSE i \in hit : TRUE].kind

allShareIds(S) == S.shares \o InvitationIds(S)

getContextForShare(S, s) ==
  IF s \in Range(S.shares) THEN "member"
  ELSE IF InvitationKind(S, s) = "device" THEN "inviteeDevice"
  ELSE IF InvitationKind(S, s) = "member" THEN "inviteeMember"
  ELSE "throw"

storeMessage(S, s, p, m) ==
  [S EXCEPT !.messageStore[s, p] = Append(@, m)]

addPeer(S, a, p) ==
  IF p \in Range(S.peers[a]) THEN S
  ELSE [S EXCEPT !.peers[a] = Append(@, p)]

\* A removal that drops every connection of the share
removeShareConnections(S, s, p) ==
  IF s \in S.connRec
  THEN [S EXCEPT !.conn = [x \in DOMAIN @ |-> IF x[1] = s THEN 0 ELSE @[x]]]
  ELSE S

removeConnection(S, s, p) ==
  IF s \in S.connRec /\ S.conn[s, p] # 0 THEN [S EXCEPT !.conn[s, p] = 0] ELSE S

\* connection.deliver(m): the payload is handed to the engine of connection c
Deliver(S, c, m) ==
  LET k == S.conns[c] IN
  [S EXCEPT !.conns[c].delivered = Append(@, m),
            !.undelivered[k.share, k.peer] = Without(@, m)]

\* lines 315-317: track the connection
Track(S, c) ==
  LET k == S.conns[c] IN
  [S EXCEPT !.connRec = @ \cup {k.share},
            !.conn[k.share, k.peer] = c]

\* One turn of the drain loop of #createConnection (lines 310-313) and, when
\* the buffer is empty, the tracking after it.  TRUE in .suspended: the
\* activation awaits connection.deliver.
DrainStep(S, c) ==
  LET k == S.conns[c]
      q == S.messageStore[k.share, k.peer]
  IN  IF q = <<>>
      THEN [S |-> Track(S, c), suspended |-> FALSE]
      ELSE [S |-> Deliver([S EXCEPT !.messageStore[k.share, k.peer] = Tail(q)],
                          c, Head(q)),
            suspended |-> TRUE]

\* #createConnection up to its first await or its end
createConnection(S, s, p, a, by) ==
  LET c == Len(S.conns) + 1
      k == [share |-> s, peer |-> p, adapter |-> a,
            context |-> getContextForShare(S, s),
            state |-> "handshaking", sessionKey |-> NoKey, joined |-> FALSE,
            removed |-> FALSE, delivered |-> <<>>, owed |-> S.undelivered[s, p],
            by |-> by]
      r == DrainStep([S EXCEPT !.conns = Append(@, k)], c)
  IN  [S |-> r.S, cur |-> IF r.suspended THEN c ELSE 0]

\* #createConnectionsForShare from position (ai, pi) of its two loops, up to
\* its next await: the adapters and the peers are read as they are now.
RECURSIVE createConnectionsForShare(_, _, _, _)
createConnectionsForShare(S, s, ai, pi) ==
  IF ai > Len(S.adapters) THEN S
  ELSE LET a == S.adapters[ai]
           ps == S.peers[a]
       IN  IF pi > Len(ps) THEN createConnectionsForShare(S, s, ai + 1, 1)
           ELSE IF s \in S.connRec /\ S.conn[s, ps[pi]] # 0
                THEN createConnectionsForShare(S, s, ai, pi + 1)
           ELSE LET r == createConnection(S, s, ps[pi], a, "share")
                IN  [r.S EXCEPT !.tasks = @ \cup
                       {[NoTask EXCEPT !.kind = "ccfs", !.share = s, !.ai = ai,
                                       !.pi = pi, !.cur = r.cur]}]

\* addTeam up to its first await
addTeam(S, s) ==
  createConnectionsForShare(
    [S EXCEPT !.shares = IF s \in Range(@) THEN @ ELSE Append(@, s)], s, 1, 1)

\* The invitation a device holds: a device invitation while it has no user
\* identity, a member invitation once it has one
InvitationFor(S) == IF S.user THEN "member" ELSE "device"

\* addInvitation up to its first await
addInvitation(S, s, kind) ==
  LET hit == {i \in 1..Len(S.invitations) : S.invitations[i].shareId = s}
      inv == [shareId |-> s, kind |-> kind]
      S1 == [S EXCEPT !.invitations =
               IF hit = {} THEN Append(@, inv)
               ELSE [@ EXCEPT ![CHOOSE i \in hit : TRUE] = inv]]
  IN  createConnectionsForShare(S1, s, 1, 1)

\* The body of the peer-candidate handler's loop (lines 78-79) for the share
\* ids still to do, up to its next await.
PeerCandidateLoop(S, a, p, todo) ==
  IF todo = <<>> THEN S
  ELSE LET r == createConnection(S, Head(todo), p, a, "peer")
       IN  IF r.cur = 0 /\ Tail(todo) = <<>> THEN r.S
           ELSE [r.S EXCEPT !.tasks = @ \cup
                   {[NoTask EXCEPT !.kind = "peer", !.adapter = a, !.peer = p,
                                   !.todo = Tail(todo), !.cur = r.cur]}]

\* #getConnection: the connection id, 0 where the code throws
getConnection(S, s, p) ==
  IF s \in S.connRec /\ <<s, p>> \in DOMAIN S.conn THEN S.conn[s, p] ELSE 0

\* #disconnect: lines 328-341
disconnect(S, s, p) ==
  LET c == getConnection(S, s, p)
      S1 == IF c = 0 THEN S ELSE [S EXCEPT !.conns[c].removed = TRUE]
  IN  Emit(removeConnection(S1, s, p), Ev("disconnected", "", s, p, ""))

\* this.#device.keys.secretKey, and the secret key of some other device
DeviceSecretKey == "dk"
OtherSecretKey == "ok"

\* decrypt(encryptedTeamKeys, secretKey): a keyring opens under the key that
\* sealed it, and decrypt throws under any other
decryptTeamKeys(c, k) == c.key = k

\* One SerializedShare of #saveState (lines 359-365): team.save() keeps the
\* team's id, the keyring is sealed under the secret key k
SerializedShare(s, k) ==
  [shareId |-> s, encryptedTeam |-> s, encryptedTeamKeys |-> [key |-> k]]

\* #saveState up to its await: the blob it hands to the store
SerializedState(S) ==
  [i \in 1..Len(S.shares) |-> SerializedShare(S.shares[i], DeviceSecretKey)]

\* The share ids of a blob's entries
BlobIds(b) == {b[i].shareId : i \in 1..Len(b)}

\* ------------------------------------------------------------- #transform
Throw(e) == [ok |-> FALSE, share |-> "", err |-> e]
Chosen(s) == [ok |-> TRUE, share |-> s, err |-> ""]

\* this.#getConnection(s, p).sessionKey, NoKey while it is undefined
SessionKeyOf(S, s, p) ==
  IF getConnection(S, s, p) = 0 THEN NoKey
  ELSE S.conns[getConnection(S, s, p)].sessionKey

\* A comparator with its operands swapped sorts the greatest key first
\* shareIdsForPeer.sort(bySessionKey)[0]: the sort is stable, so among equal
\* keys the first in the order of Object.keys(#shares) stays first
FirstBySessionKey(S, cands, t) ==
  LET least(i) == \A j \in 1..Len(cands) :
                    SessionKeyOf(S, cands[i], t) <= SessionKeyOf(S, cands[j], t)
      i0 == CHOOSE i \in 1..Len(cands) :
              least(i) /\ \A j \in 1..(i - 1) : ~least(j)
  IN  cands[i0]

\* #getShareIdForMessage (lines 441-471): the set of its possible outcomes.
\* `targetId in this.#connections[shareId]` throws a TypeError when the share
\* has no connections object.  With several candidates of which one has no
\* sessionKey yet, the comparator either throws (undefined.localeCompare) or
\* compares a key with the string "undefined": any outcome is possible.
getShareIdForMessage(S, t) ==
  IF \E i \in 1..Len(S.shares) : S.shares[i] \notin S.connRec
  THEN {Throw("TypeError")}
  ELSE LET has(s) == S.conn[s, t] # 0
           shareIdsForPeer == SelectSeq(S.shares, has)
           n == Len(shareIdsForPeer)
       IN  IF n = 0 THEN {Throw("No share found for peer")}
           ELSE IF n = 1 THEN {Chosen(shareIdsForPeer[1])}
           ELSE IF \A i \in 1..n : SessionKeyOf(S, shareIdsForPeer[i], t) # NoKey
                THEN {Chosen(FirstBySessionKey(S, shareIdsForPeer, t))}
           ELSE {Throw("TypeError")} \cup {Chosen(shareIdsForPeer[i]) : i \in 1..n}

\* #transform.outbound (lines 186-198): the set of its possible outcomes.
\* encrypt(message, undefined), for a connection with no sessionKey yet, is the
\* crypto library's: it throws or seals under no usable key.
outbound(S, m) ==
  UNION { IF ~r.ok THEN {[ok |-> FALSE, err |-> r.err, frame |-> NoFrame]}
          ELSE LET k == SessionKeyOf(S, r.share, m.targetId)
                   f == Frame("encrypted", S.device, m.targetId, r.share, 0,
                              encrypt(m, k), "")
               IN  IF k = NoKey
                   THEN {[ok |-> FALSE, err |-> "encrypt", frame |-> NoFrame],
                         [ok |-> TRUE, err |-> "", frame |-> f]}
                   ELSE {[ok |-> TRUE, err |-> "", frame |-> f]}
        : r \in getShareIdForMessage(S, m.targetId) }

RepoMessageOf(f) ==
  [type |-> f.type, senderId |-> f.senderId, targetId |-> f.targetId,
   documentId |-> f.documentId]

\* #transform.inbound (lines 176-185)
inbound(S, f) ==
  IF isEncryptedMessage(f)
  THEN LET c == getConnection(S, f.shareId, f.senderId)
       IN  IF c = 0 THEN [ok |-> FALSE, err |-> "Connection not found", msg |-> NullMsg]
           ELSE LET d == decrypt(f.encryptedMessage, S.conns[c].sessionKey)
                IN  IF d.ok THEN [ok |-> TRUE, err |-> "", msg |-> d.msg]
                    ELSE [ok |-> FALSE, err |-> "decrypt", msg |-> NullMsg]
  ELSE [ok |-> TRUE, err |-> "", msg |-> RepoMessageOf(f)]

\* ----------------------------------------------------------------- actions
\* What the store holds at construction: nothing, or a blob that an earlier
\* provider saved, on this device or on another
InitStores ==
  {[present |-> FALSE, shares |-> <<>>]} \cup
  {[present |-> TRUE, shares |-> <<SerializedShare("s1", k)>>]
     : k \in {DeviceSecretKey, OtherSecretKey}}

\* The blobs a provider of this device, or of another, has saved for the
\* shares x
SavedStore(x, k) ==
  [present |-> TRUE, shares |-> [i \in 1..Len(x) |-> SerializedShare(x[i], k)]]

\* The stores of a restart: nothing saved, or the blob of an earlier provider
\* that held one or two shares
RestartStores ==
  InitStores \cup
  {SavedStore(x, k) : x \in {<<"s1", "s2">>, <<"s2", "s1">>},
                      k \in {DeviceSecretKey, OtherSecretKey}}

\* The state after construction, the store being one of `stores`
InitIn(stores) ==
  /\ store \in stores
  /\ device \in UserIds
  /\ adapters = <<>>
  /\ user \in BOOLEAN
  /\ shares = <<>>
  /\ invitations = <<>>
  /\ connRec = {}
  /\ conn = [x \in Shares \X Peers |-> 0]
  /\ conns = <<>>
  /\ messageStore = [x \in Shares \X Peers |-> <<>>]
  /\ peers = [a \in BaseAdapters |-> <<>>]
  /\ tasks = {}
  /\ loaded = FALSE
  /\ out = <<>>
  /\ announced = {}
  /\ nFrames = 0
  /\ undelivered = [x \in Shares \X Peers |-> <<>>]
  /\ closed = {}

Init == InitIn(InitStores)

\* A load that admits the first saved share only
AddTeamsFirstOnly(S, q) ==
  IF q = <<>> THEN S
  ELSE IF ~decryptTeamKeys(Head(q).encryptedTeamKeys, DeviceSecretKey)
       THEN Emit(S, Ev("throw", "", Head(q).shareId, "", "decrypt"))
  ELSE addTeam(S, Head(q).encryptedTeam)

\* The loop of lines 377-390 over the entries q of the decoded blob: decrypt
\* throws on a keyring sealed under another key, which ends #loadState;
\* Auth.loadTeam gives the saved team, and addTeam is not awaited
RECURSIVE AddTeams(_, _)
AddTeams(S, q) ==
  IF q = <<>> THEN S
  ELSE IF ~decryptTeamKeys(Head(q).encryptedTeamKeys, DeviceSecretKey)
       THEN Emit(S, Ev("throw", "", Head(q).shareId, "", "decrypt"))
  ELSE AddTeams(addTeam(S, Head(q).encryptedTeam), Tail(q))

\* No activation is ready to go on: one whose awaited #createConnection has
\* returned resumes as a microtask, before the event loop takes the next
\* event (a base adapter's or an engine's event, a completion of the store, a
\* send of the repository).  Only the application's addTeam and addInvitation
\* calls, made back to back, come before it.
Quiescent == \A t \in tasks : t.cur # 0 \/ t.kind \notin {"ccfs", "peer"}

\* #loadState resumes from `await this.#load(STORAGE_KEY)`: lines 372-391
LoadState ==
  /\ ~loaded
  /\ Quiescent
  /\ Commit(AddTeams([St EXCEPT !.loaded = TRUE],
                     IF store.present THEN store.shares ELSE <<>>))

\* wrap(baseAdapter): lines 65-132
Wrap(a) ==
  /\ a \notin Range(adapters)
  /\ Commit([St EXCEPT !.adapters = Append(@, a)])

\* baseAdapter.on("peer-candidate"): lines 72-80
BasePeerCandidate(a, p) ==
  /\ a \in Range(adapters)
  /\ Quiescent
  /\ LET S1 == addPeer(St, a, p)
     IN  Commit(PeerCandidateLoop(S1, a, p, allShareIds(S1)))

\* The message handler's auth branch (lines 86-99) for payload m of frame f
AuthFrame(S, a, f, m) ==
  LET S1 == [S EXCEPT !.nFrames = m,
                      !.undelivered[f.shareId, f.senderId] = Append(@, m)]
  IN  IF f.shareId \notin S1.connRec
      THEN Emit(storeMessage(S1, f.shareId, f.senderId, m),
                [Ev("stored", a, f.shareId, f.senderId, "") EXCEPT !.num = m])
      ELSE IF getConnection(S1, f.shareId, f.senderId) = 0
           THEN Emit(S1, [Ev("error", a, f.shareId, f.senderId, "Connection not found")
                            EXCEPT !.num = m])
      ELSE Emit(Deliver(S1, getConnection(S1, f.shareId, f.senderId), m),
                [Ev("delivered", a, f.shareId, f.senderId, "") EXCEPT !.num = m])

\* The other branch with no catch: the exception of the inbound transform goes
\* to the base adapter
OtherFrameNoCatch(S, a, f) ==
  LET r == inbound(S, f)
  IN  IF r.ok
      THEN Emit(S, [Ev("message", a, f.shareId, f.senderId, f.type) EXCEPT !.msg = r.msg])
      ELSE Emit(S, Ev("throw", a, f.shareId, f.senderId, r.err))

\* The message handler's other branch (lines 100-105) and its catch
OtherFrame(S, a, f) ==
  LET r == inbound(S, f)
  IN  IF r.ok
      THEN Emit(S, [Ev("message", a, f.shareId, f.senderId, f.type) EXCEPT !.msg = r.msg])
      ELSE Emit(S, Ev("error", a, f.shareId, f.senderId, r.err))

\* baseAdapter.on("message"): lines 84-114
BaseMessage(a, f) ==
  /\ a \in Range(adapters)
  /\ Quiescent
  /\ f.senderId \in Range(peers[a])
  /\ IF isAuthMessage(f)
     THEN /\ nFrames < MaxFrames
          /\ Commit(AuthFrame(St, a, f, nFrames + 1))
     ELSE Commit(OtherFrame(St, a, f))

AuthFrames(P, SH) ==
  {Frame("auth", p, BasePeerId, s, 0, NoCipher, "") : p \in P, s \in SH}

EncryptedFrames(P, SH) ==
  {Frame("encrypted", p, BasePeerId, s, 0, encrypt(SyncMessage(p, BasePeerId, d), k), "")
     : p \in P, s \in SH, k \in SessionKeys, d \in Docs}

SyncFrames(P) ==
  {Frame("sync", p, BasePeerId, "", 0, NoCipher, d) : p \in P, d \in Docs}

\* The peer-disconnected handler's loop (lines 117-119): `peerId in
\* this.#connections[shareId]` throws when the share has no connections object
RECURSIVE DisconnectLoop(_, _, _)
DisconnectLoop(S, todo, p) ==
  IF todo = <<>> THEN [S |-> S, threw |-> FALSE]
  ELSE IF Head(todo) \notin S.connRec THEN [S |-> S, threw |-> TRUE]
  ELSE IF S.conn[Head(todo), p] # 0
       THEN DisconnectLoop(disconnect(S, Head(todo), p), Tail(todo), p)
  ELSE DisconnectLoop(S, Tail(todo), p)

\* forwardEvents(baseAdapter, authenticatedAdapter, [...]): the event is
\* re-emitted on the authenticated adapter
forwardEvents(S, a, ev, p) == Emit(S, Ev(ev, a, "", p, "forwarded"))

\* baseAdapter.on("peer-disconnected"), lines 116-120, then the forwarding
\* listener of lines 123-128: a listener that throws ends the emit
BasePeerDisconnected(a, p) ==
  /\ a \in Range(adapters)
  /\ Quiescent
  /\ p \in Range(peers[a])
  /\ LET r == DisconnectLoop(St, allShareIds(St), p)
     IN  IF r.threw THEN Commit(Emit(r.S, Ev("throw", a, "", p, "TypeError")))
         ELSE Commit(forwardEvents(r.S, a, "peer-disconnected", p))

\* The base adapter emits close: the forwarding listener of lines 123-128 is
\* the only one
BaseClose(a) ==
  /\ a \in Range(adapters)
  /\ a \notin closed
  /\ Quiescent
  /\ Commit(forwardEvents([St EXCEPT !.closed = @ \cup {a}], a, "close", ""))

\* public addTeam(team): lines 141-145
AddTeam(s) == Commit(addTeam(St, s))

\* public addInvitation(invitation): lines 147-151
AddInvitation(s) == Commit(addInvitation(St, s, InvitationFor(St)))

\* An activation suspended in the drain loop of #createConnection resumes
ResumeDrain(t) ==
  /\ t.cur # 0
  /\ LET r == DrainStep([St EXCEPT !.tasks = @ \ {t}], t.cur)
     IN  Commit([r.S EXCEPT !.tasks = @ \cup
                   {[t EXCEPT !.cur = IF r.suspended THEN t.cur ELSE 0]}])

\* An activation whose awaited #createConnection has returned resumes its loop
ResumeLoop(t) ==
  /\ t.cur = 0
  /\ t.kind \in {"ccfs", "peer"}
  /\ LET S1 == [St EXCEPT !.tasks = @ \ {t}]
     IN  IF t.kind = "ccfs"
         THEN Commit(createConnectionsForShare(S1, t.share, t.ai, t.pi + 1))
         ELSE Commit(PeerCandidateLoop(S1, t.adapter, t.peer, t.todo))

\* ---- the events of an Auth.Connection, with the handlers of lines 253-304
Live(c) == conns[c].state # "closed"

\* A joined handler that serializes the state before it admits the team
JoinedSavesFirst(c) ==
  /\ Quiescent
  /\ conns[c].state = "handshaking"
  /\ conns[c].context # "member"
  /\ ~conns[c].joined
  /\ LET S1 == addTeam([St EXCEPT !.conns[c].joined = TRUE, !.user = TRUE],
                       conns[c].share)
     IN  Commit([S1 EXCEPT !.tasks = @ \cup
                   {[NoTask EXCEPT !.kind = "joined", !.c = c,
                                   !.blob = SerializedState(St)]}])

\* on("joined"), lines 254-263, up to `await this.#saveState()`
Joined(c) ==
  /\ Quiescent
  /\ conns[c].state = "handshaking"
  /\ conns[c].context # "member"
  /\ ~conns[c].joined
  /\ LET S1 == addTeam([St EXCEPT !.conns[c].joined = TRUE, !.user = TRUE],
                       conns[c].share)
     IN  Commit([S1 EXCEPT !.tasks = @ \cup
                   {[NoTask EXCEPT !.kind = "joined", !.c = c,
                                   !.blob = SerializedState(S1)]}])

\* on("connected"): lines 272-278.  The engine has set connection.sessionKey
\* to k; every session negotiates a key of its own.
Connected(c, k) ==
  /\ Quiescent
  /\ conns[c].state = "handshaking"
  /\ \A c2 \in 1..Len(conns) : conns[c2].sessionKey # k
  /\ conns[c].context = "member" \/ conns[c].joined
  /\ LET S1 == [St EXCEPT !.conns[c].state = "connected",
                          !.conns[c].sessionKey = k,
                          !.announced = @ \cup {<<conns[c].adapter, conns[c].peer>>}]
         S2 == Emit(S1, Ev("connected", "", conns[c].share, conns[c].peer, ""))
     IN  Commit(Emit(S2, [Ev("peer-candidate", conns[c].adapter, conns[c].share,
                             conns[c].peer, "") EXCEPT !.num = c]))

\* on("updated"), lines 280-282, up to `await this.#saveState()`
Updated(c) ==
  /\ Quiescent
  /\ conns[c].state = "connected"
  /\ Commit([St EXCEPT !.tasks = @ \cup
               {[NoTask EXCEPT !.kind = "updated", !.c = c,
                               !.blob = SerializedState(St)]}])

\* on("localError") and on("remoteError"): lines 284-300
ConnectionError(c, which) ==
  /\ Quiescent
  /\ Live(c)
  /\ Commit(Emit(St, Ev(which, "", conns[c].share, conns[c].peer, "")))

\* on("disconnected"): lines 302-304
Disconnected(c) ==
  /\ Quiescent
  /\ Live(c)
  /\ Commit(disconnect([St EXCEPT !.conns[c].state = "closed",
                                  !.conns[c].sessionKey = NoKey],
                       conns[c].share, conns[c].peer))

\* `await this.#saveState()` returns: the store holds the blob, and the
\* handler that awaited it goes on (lines 265-269 of on("joined"))
SaveDone(t) ==
  /\ t.kind \in {"joined", "updated"}
  /\ Quiescent
  /\ LET S1 == [St EXCEPT !.tasks = @ \ {t},
                          !.store = [present |-> TRUE, shares |-> t.blob]]
         s == conns[t.c].share
         hit == {i \in 1..Len(invitations) : invitations[i].shareId = s}
     IN  IF t.kind = "updated" THEN Commit(S1)
         ELSE Commit(Emit([S1 EXCEPT !.invitations =
                             SelectSeq(@, LAMBDA v : v.shareId # s)],
                          Ev("joined", "", s, conns[t.c].peer, "")))

\* AuthenticatedNetworkAdapter.send(message): the outbound transform, the
\* frame handed to the base adapter, an exception surfaced as an error event.
\* Both outcomes are recorded with the message that was to be sent.
Send(a, m) ==
  /\ Quiescent
  /\ a \in Range(adapters)
  /\ \E r \in outbound(St, m) :
       IF r.ok
       THEN Commit(Emit(St, [Ev("base-send", a, r.frame.shareId, m.targetId, "encrypted")
                               EXCEPT !.msg = m, !.frame = r.frame]))
       ELSE Commit(Emit(St, [Ev("error", a, "", m.targetId, r.err) EXCEPT !.msg = m]))

\* ------------------------------------------------------- specifications
\* The whole environment: two peers, two shares, every event.
Next ==
  \/ LoadState
  \/ \E a \in BaseAdapters : Wrap(a)
  \/ \E a \in BaseAdapters, p \in Peers : BasePeerCandidate(a, p)
  \/ \E a \in BaseAdapters, f \in AuthFrames(Peers, Shares) : BaseMessage(a, f)
  \/ \E a \in BaseAdapters, f \in EncryptedFrames(Peers, Shares) : BaseMessage(a, f)
  \/ \E a \in BaseAdapters, f \in SyncFrames(Peers) : BaseMessage(a, f)
  \/ \E a \in BaseAdapters, p \in Peers : BasePeerDisconnected(a, p)
  \/ \E a \in BaseAdapters : BaseClose(a)
  \/ \E s \in Shares : AddTeam(s)
  \/ \E s \in Shares : AddInvitation(s)
  \/ \E t \in tasks : ResumeDrain(t)
  \/ \E t \in tasks : ResumeLoop(t)
  \/ \E t \in tasks : SaveDone(t)
  \/ \E c \in 1..Len(conns) : Joined(c)
  \/ \E c \in 1..Len(conns), k \in SessionKeys : Connected(c, k)
  \/ \E c \in 1..Len(conns) : Updated(c)
  \/ \E c \in 1..Len(conns), which \in {"localError", "remoteError"} : ConnectionError(c, which)
  \/ \E c \in 1..Len(conns) : Disconnected(c)
  \/ \E a \in BaseAdapters, t \in Peers, d \in Docs : Send(a, SyncMessage(BasePeerId, t, d))

Spec == Init /\ [][Next]_vars

\* The properties are stated over parts of that environment, each small enough
\* to explore in full.

\* Sessions: admission, peer arrival and loss, and the engine's events of one
\* peer's sessions on one share; no frames.
NextSessions ==
  \/ LoadState
  \/ \E a \in OneAdapter : Wrap(a)
  \/ \E a \in OneAdapter : BasePeerCandidate(a, "p1")
  \/ \E a \in OneAdapter : BasePeerDisconnected(a, "p1")
  \/ AddTeam("s1")
  \/ AddInvitation("s1")
  \/ \E t \in tasks : ResumeLoop(t)
  \/ \E t \in tasks : SaveDone(t)
  \/ \E c \in 1..Len(conns) : Joined(c)
  \/ \E c \in 1..Len(conns), k \in SessionKeys : Connected(c, k)
  \/ \E c \in 1..Len(conns) : Disconnected(c)

SpecSessions == Init /\ [][NextSessions]_vars

\* Handshake frames: two peers' auth frames for one share, and the creation of
\* the sessions that drain them.
NextBuffer ==
  \/ LoadState
  \/ \E a \in OneAdapter : Wrap(a)
  \/ \E a \in OneAdapter, p \in Peers : BasePeerCandidate(a, p)
  \/ \E a \in OneAdapter, f \in AuthFrames(Peers, {"s1"}) : BaseMessage(a, f)
  \/ AddTeam("s1")
  \/ \E t \in tasks : ResumeDrain(t)
  \/ \E t \in tasks : ResumeLoop(t)

SpecBuffer == Init /\ [][NextBuffer]_vars

\* Repository traffic inbound: one peer's encrypted and plain frames.
NextInbound ==
  \/ LoadState
  \/ \E a \in OneAdapter : Wrap(a)
  \/ \E a \in OneAdapter : BasePeerCandidate(a, "p1")
  \/ AddTeam("s1")
  \/ \E t \in tasks : ResumeLoop(t)
  \/ \E c \in 1..Len(conns), k \in SessionKeys : Connected(c, k)
  \/ \E c \in 1..Len(conns) : Disconnected(c)
  \/ \E a \in OneAdapter, f \in EncryptedFrames({"p1"}, {"s1"}) : BaseMessage(a, f)
  \/ \E a \in OneAdapter, f \in SyncFrames({"p1"}) : BaseMessage(a, f)

SpecInbound == Init /\ [][NextInbound]_vars

\* Repository traffic outbound: sends to one peer over two shares.
NextSend ==
  \/ LoadState
  \/ \E a \in OneAdapter : Wrap(a)
  \/ \E a \in OneAdapter : BasePeerCandidate(a, "p1")
  \/ \E s \in Shares : AddTeam(s)
  \/ \E t \in tasks : ResumeLoop(t)
  \/ \E c \in 1..Len(conns), k \in SessionKeys : Connected(c, k)
  \/ \E c \in 1..Len(conns) : Disconnected(c)
  \/ \E a \in OneAdapter, d \in Docs : Send(a, SyncMessage(BasePeerId, "p1", d))

SpecSend == Init /\ [][NextSend]_vars

\* Joining: one peer, one share held by invitation, the join and the saves of
\* the joined and updated handlers.
NextJoin ==
  \/ LoadState
  \/ \E a \in OneAdapter : Wrap(a)
  \/ \E a \in OneAdapter : BasePeerCandidate(a, "p1")
  \/ AddInvitation("s1")
  \/ \E t \in tasks : ResumeLoop(t)
  \/ \E c \in 1..Len(conns) : Joined(c)
  \/ \E c \in 1..Len(conns), k \in SessionKeys : Connected(c, k)
  \/ \E c \in 1..Len(conns) : Updated(c)
  \/ \E t \in tasks : SaveDone(t)

SpecJoin == Init /\ [][NextJoin]_vars

\* Close: one adapter that closes, one peer, one share.
NextClose ==
  \/ LoadState
  \/ \E a \in OneAdapter : Wrap(a)
  \/ \E a \in OneAdapter : BasePeerCandidate(a, "p1")
  \/ \E a \in OneAdapter : BaseClose(a)
  \/ AddTeam("s1")
  \/ \E t \in tasks : ResumeLoop(t)
  \/ \E c \in 1..Len(conns) : Disconnected(c)

SpecClose == Init /\ [][NextClose]_vars

\* Two base adapters on which the same peer id is seen: one share, the peer's
\* handshake frames and its loss.
NextAdapters ==
  \/ \E a \in BaseAdapters : Wrap(a)
  \/ \E a \in BaseAdapters : BasePeerCandidate(a, "p1")
  \/ \E a \in BaseAdapters, f \in AuthFrames({"p1"}, {"s1"}) : BaseMessage(a, f)
  \/ \E a \in BaseAdapters : BasePeerDisconnected(a, "p1")
  \/ AddTeam("s1")
  \/ \E t \in tasks : ResumeDrain(t)
  \/ \E t \in tasks : ResumeLoop(t)
  \/ \E c \in 1..Len(conns), k \in SessionKeys : Connected(c, k)

SpecAdapters == Init /\ [][NextAdapters]_vars

\* Restart: a provider constructed on the store an earlier provider left, the
\* load, and the peers that arrive before or after it.
NextRestart ==
  \/ LoadState
  \/ \E a \in OneAdapter : Wrap(a)
  \/ \E a \in OneAdapter, p \in Peers : BasePeerCandidate(a, p)
  \/ \E t \in tasks : ResumeLoop(t)
  \/ \E c \in 1..Len(conns), k \in SessionKeys : Connected(c, k)

SpecRestart == InitIn(RestartStores) /\ [][NextRestart]_vars

\* A provider constructed over an empty store
EmptyStore == {[present |-> FALSE, shares |-> <<>>]}

\* Inbound errors: one peer with a session on one share, the repository
\* frames of both peers and the handshake frames of the peer without session.
NextErrors ==
  \/ \E a \in OneAdapter : Wrap(a)
  \/ \E a \in OneAdapter : BasePeerCandidate(a, "p1")
  \/ \E a \in OneAdapter, f \in AuthFrames({"p2"}, {"s1"}) : BaseMessage(a, f)
  \/ \E a \in OneAdapter, f \in EncryptedFrames(Peers, {"s1"}) : BaseMessage(a, f)
  \/ AddTeam("s1")
  \/ \E t \in tasks : ResumeLoop(t)
  \/ \E c \in 1..Len(conns), k \in SessionKeys : Connected(c, k)

SpecErrors == InitIn(EmptyStore) /\ [][NextErrors]_vars

\* Failures: two peers and two shares, and the engine's connected, error and
\* disconnected events.
NextFailures ==
  \/ \E a \in OneAdapter : Wrap(a)
  \/ \E a \in OneAdapter, p \in Peers : BasePeerCandidate(a, p)
  \/ \E s \in Shares : AddTeam(s)
  \/ \E t \in tasks : ResumeLoop(t)
  \/ \E c \in 1..Len(conns), k \in SessionKeys : Connected(c, k)
  \/ \E c \in 1..Len(conns), which \in {"localError", "remoteError"} : ConnectionError(c, which)
  \/ \E c \in 1..Len(conns) : Disconnected(c)

SpecFailures == InitIn(EmptyStore) /\ [][NextFailures]_vars

\* Reconnection: one peer's handshake frames, the sessions that drain them,
\* and the engine's connected and disconnected events.
NextReconnect ==
  \/ \E a \in OneAdapter : Wrap(a)
  \/ \E a \in OneAdapter : BasePeerCandidate(a, "p1")
  \/ \E a \in OneAdapter, f \in AuthFrames({"p1"}, {"s1"}) : BaseMessage(a, f)
  \/ AddTeam("s1")
  \/ \E t \in tasks : ResumeDrain(t)
  \/ \E t \in tasks : ResumeLoop(t)
  \/ \E c \in 1..Len(conns), k \in SessionKeys : Connected(c, k)
  \/ \E c \in 1..Len(conns) : Disconnected(c)

SpecReconnect == InitIn(EmptyStore) /\ [][NextReconnect]_vars

\* Overlapping saves: one peer, invitations to two shares, and the joined and
\* updated handlers whose store writes complete in any order.
NextSaves ==
  \/ LoadState
  \/ \E a \in OneAdapter : Wrap(a)
  \/ \E a \in OneAdapter : BasePeerCandidate(a, "p1")
  \/ \E s \in Shares : AddInvitation(s)
  \/ \E t \in tasks : ResumeLoop(t)
  \/ \E t \in tasks : SaveDone(t)
  \/ \E c \in 1..Len(conns) : Joined(c)
  \/ \E c \in 1..Len(conns), k \in SessionKeys : Connected(c, k)
  \/ \E c \in 1..Len(conns) : Updated(c)

SpecSaves == InitIn(EmptyStore) /\ [][NextSaves]_vars

\* The blob an earlier provider of this device left in the store
ConstructionStore == SavedStore(<<"s1">>, DeviceSecretKey)

\* A save before the load has finished: the store holds one share at
\* construction, and an invitation to another share is joined.
NextEarlySave ==
  \/ LoadState
  \/ \E a \in OneAdapter : Wrap(a)
  \/ \E a \in OneAdapter : BasePeerCandidate(a, "p1")
  \/ AddInvitation("s2")
  \/ \E t \in tasks : ResumeLoop(t)
  \/ \E t \in tasks : SaveDone(t)
  \/ \E c \in 1..Len(conns) : Joined(c)
  \/ \E c \in 1..Len(conns), k \in SessionKeys : Connected(c, k)

SpecEarlySave == InitIn({ConstructionStore}) /\ [][NextEarlySave]_vars

\* -------------------------------------------------------------- properties
\* A connection object nobody has disconnected: its engine has not emitted
\* disconnected, and #disconnect has not removed it from the registry.
Undisconnected(c) == conns[c].state # "closed" /\ ~conns[c].removed

SamePair(c1, c2) ==
  /\ conns[c1].share = conns[c2].share
  /\ conns[c1].peer = conns[c2].peer
  /\ conns[c1].adapter = conns[c2].adapter

\* The creation of connection c has ended (it has been tracked)
Created(c) == \A t \in tasks : t.cur # c

\* C1: for every pair (shareId, peerId) at most one handshake session exists:
\* no second connection is started for a pair while an earlier one for that
\* pair has not been disconnected.
C1_AtMostOneSession ==
  \A c1, c2 \in 1..Len(conns) :
    (c1 # c2 /\ SamePair(c1, c2)) => ~(Undisconnected(c1) /\ Undisconnected(c2))

\* C2: whenever peer-candidate for p is emitted on an authenticated adapter,
\* some share has a registered session toward p that has reached connected.
C2_AnnouncedPeerHasConnectedSession ==
  \A i \in 1..Len(out) :
    out[i].ev = "peer-candidate" =>
      \E s \in Shares :
        /\ getConnection(St, s, out[i].peer) # 0
        /\ conns[getConnection(St, s, out[i].peer)].state = "connected"

\* C3: no message event with a repository message from sender p is emitted on
\* an authenticated adapter before a peer-candidate for p was emitted on it.
C3_CandidateBeforeMessage ==
  \A i \in 1..Len(out) :
    out[i].ev = "message" => <<out[i].adapter, out[i].msg.senderId>> \in announced

\* C4: the key sets of shares and invitations are disjoint in every state.
C4_SharesInvitationsDisjoint ==
  Range(shares) \cap Range(InvitationIds(St)) = {}

\* C5: the payloads that arrived for a pair before its session was created are
\* delivered to that session, in arrival order, before any later payload.
C5_BufferedDeliveredFirstInOrder ==
  \A c \in 1..Len(conns) : Created(c) => IsPrefix(conns[c].owed, conns[c].delivered)

\* C6: an auth frame for a pair with no session is appended to the pending
\* buffer of that pair; it is neither dropped nor reported as an error.
C6_OrphanFrameBuffered ==
  \A i \in 1..Len(out) :
    (/\ out[i].ev \in {"stored", "delivered", "error"}
     /\ out[i].num > 0
     /\ getConnection(St, out[i].share, out[i].peer) = 0)
    => /\ out[i].ev = "stored"
       /\ messageStore[out[i].share, out[i].peer] # <<>>
       /\ messageStore[out[i].share, out[i].peer]
            [Len(messageStore[out[i].share, out[i].peer])] = out[i].num

\* C7: admitting the same share twice with addTeam creates at most one session
\* per known peer for that share.
C7_AddTeamTwiceOneSession ==
  \A c1, c2 \in 1..Len(conns) :
    (/\ c1 # c2
     /\ SamePair(c1, c2)
     /\ conns[c1].by = "share"
     /\ conns[c2].by = "share")
    => ~(Undisconnected(c1) /\ Undisconnected(c2))

\* The receiving provider's registry: it knows this device under the base
\* adapter's peer id and has, for each share, no session toward it (-1), a
\* session with no key yet (NoKey), or a connected session
RemoteKeys == {-1, NoKey} \cup SessionKeys
ShareList == <<"s1", "s2">>
RemoteState(key) ==
  [connRec |-> {s \in Shares : key[s] # -1},
   conn |-> [x \in Shares \X {BasePeerId} |->
               IF key[x[1]] = -1 THEN 0
               ELSE CHOOSE i \in 1..Len(ShareList) : ShareList[i] = x[1]],
   conns |-> [i \in 1..Len(ShareList) |-> [sessionKey |-> key[ShareList[i]]]]]

\* An outcome of send(m): the frame handed to the base adapter, or the error
\* event that reports the exception
FrameSent(e) == e.ev = "base-send"
SendFailed(e) == e.ev = "error" /\ e.msg # NullMsg

\* C8: a message m sent to p while both sides hold a connected session on the
\* selected share with the same key travels in an encrypted frame that carries
\* that share id, and the receiver's inbound transform of the frame yields m.
C8_RoundTrip ==
  \A i \in 1..Len(out) :
    (/\ FrameSent(out[i])
     /\ SessionKeyOf(St, out[i].frame.shareId, out[i].peer) # NoKey)
    => /\ out[i].frame.type = "encrypted"
       /\ Chosen(out[i].frame.shareId) \in getShareIdForMessage(St, out[i].peer)
       /\ \A key \in [Shares -> RemoteKeys] :
            key[out[i].frame.shareId]
              = SessionKeyOf(St, out[i].frame.shareId, out[i].peer)
            => inbound(RemoteState(key), out[i].frame)
                 = [ok |-> TRUE, err |-> "", msg |-> out[i].msg]

\* candidates = {s in shares : t has a session on s}
Candidates(t) == {s \in Range(shares) : getConnection(St, s, t) # 0}

\* The peer holds a session key on some admitted share
Authenticated(t) == \E s \in Candidates(t) : SessionKeyOf(St, s, t) # NoKey

\* C9: for a send to a peer t that holds a session key, one share is selected:
\* a member of candidates, and one whose session key is the least of the
\* candidates' keys.
C9_ShareSelection ==
  \A i \in 1..Len(out) :
    (/\ FrameSent(out[i]) \/ SendFailed(out[i])
     /\ out[i].info # "encrypt"
     /\ Authenticated(out[i].peer))
    => /\ FrameSent(out[i])
       /\ out[i].frame.shareId \in Candidates(out[i].peer)
       /\ \A s \in Candidates(out[i].peer) :
            SessionKeyOf(St, s, out[i].peer) # NoKey =>
              /\ SessionKeyOf(St, out[i].frame.shareId, out[i].peer) # NoKey
              /\ SessionKeyOf(St, out[i].frame.shareId, out[i].peer)
                   <= SessionKeyOf(St, s, out[i].peer)

\* C10: a send to a peer that is not authenticated transmits no frame and
\* reports the 'no share for peer' error with that peer id.
C10_UnauthenticatedSendReportsNoShare ==
  \A i \in 1..Len(out) :
    (/\ FrameSent(out[i]) \/ SendFailed(out[i])
     /\ ~Authenticated(out[i].peer))
    => SendFailed(out[i]) /\ out[i].info = "No share found for peer"

\* C11: peer-candidate for a peer is emitted once per period in which the peer
\* is connected: a session that reaches connected while a session on another
\* share toward the same peer is connected does not emit it again.
C11_CandidateOncePerPeer ==
  \A i \in 1..Len(out) :
    out[i].ev = "peer-candidate" =>
      ~\E c \in 1..Len(conns) :
         /\ c # out[i].num
         /\ conns[c].adapter = out[i].adapter
         /\ conns[c].peer = out[i].peer
         /\ conns[c].share # out[i].share
         /\ conns[c].state = "connected"
         /\ getConnection(St, conns[c].share, conns[c].peer) = c

\* A write of a blob with an entry for s has been issued: it is in the store,
\* or a #saveState that serialized it awaits the store
SaveIssuedFor(s) ==
  \/ store.present /\ s \in BlobIds(store.shares)
  \/ \E t \in tasks : t.kind \in {"joined", "updated"} /\ s \in BlobIds(t.blob)

\* C12: once a call of addTeam for share s has completed, a write of the
\* shares blob with an entry for s has been issued.
C12_AddTeamSaves ==
  \A s \in Range(shares) :
    (\A t \in tasks : ~(t.kind = "ccfs" /\ t.share = s)) => SaveIssuedFor(s)

\* C13: when joined is emitted outward for an invitation on share S, S is in
\* shares, S is not in invitations, the user identity is set, and the blob last
\* written to the store has an entry for S.
C13_JoinedAfterAdmissionAndSave ==
  \A i \in 1..Len(out) :
    out[i].ev = "joined" =>
      /\ out[i].share \in Range(shares)
      /\ out[i].share \notin Range(InvitationIds(St))
      /\ user
      /\ store.present
      /\ out[i].share \in BlobIds(store.shares)

\* joined has been emitted for a share that was joined by an invitation
C13_Witness ==
  \E i \in 1..Len(out) :
    /\ out[i].ev = "joined"
    /\ \E c \in 1..Len(conns) :
         /\ conns[c].share = out[i].share
         /\ conns[c].joined
         /\ conns[c].context \in {"inviteeDevice", "inviteeMember"}

\* C14: after a base adapter has emitted close, every session created through
\* its wrapper is closed and out of the registry, and none is created later.
C14_CloseEndsSessions ==
  \A c \in 1..Len(conns) :
    conns[c].adapter \in closed =>
      /\ conns[c].state = "closed"
      /\ getConnection(St, conns[c].share, conns[c].peer) # c

\* The store holds a blob that a provider of this device saved
SavedByThisDevice ==
  /\ store.present
  /\ \A i \in 1..Len(store.shares) :
       decryptTeamKeys(store.shares[i].encryptedTeamKeys, DeviceSecretKey)

\* C15: a provider constructed on a store that holds the blob an earlier
\* provider of the same device saved for the shares X has, once its load has
\* completed, exactly the shares of X and no invitation; and when its session
\* creations have ended, a member session toward every known peer on each.
C15_RestartAdmitsSavedShares ==
  (loaded /\ SavedByThisDevice) =>
    /\ Range(shares) = BlobIds(store.shares)
    /\ invitations = <<>>
    /\ tasks = {} =>
         \A s \in BlobIds(store.shares) : \A i \in 1..Len(adapters) :
           \A p \in Range(peers[adapters[i]]) :
             /\ getConnection(St, s, p) # 0
             /\ conns[getConnection(St, s, p)].context = "member"

\* two saved shares have been loaded and a member session is open on each
C15_Witness ==
  /\ loaded /\ SavedByThisDevice
  /\ BlobIds(store.shares) = {"s1", "s2"}
  /\ tasks = {}
  /\ \A s \in Shares :
       /\ getConnection(St, s, "p1") # 0
       /\ conns[getConnection(St, s, "p1")].context = "member"

\* The frames a base adapter may deliver
InboundFrames ==
  AuthFrames(Peers, Shares) \cup EncryptedFrames(Peers, Shares) \cup SyncFrames(Peers)

\* Processing frame f raises an exception: an auth frame for a share that has
\* sessions but none for the sender, an encrypted frame with no session for
\* the sender, or one that does not decrypt under the session's key
Raises(f) ==
  IF isAuthMessage(f)
  THEN f.shareId \in connRec /\ getConnection(St, f.shareId, f.senderId) = 0
  ELSE ~inbound(St, f).ok

Registered(x) == IF x[1] \in connRec THEN conn[x] ELSE 0

\* The pair of session c
PairOf(c) == <<conns[c].share, conns[c].peer>>

\* C17: a localError, remoteError or disconnected event of the session for
\* (s, p) leaves the registered session of every other pair in place and
\* unchanged and emits no peer-candidate; a peer is announced only in a step in
\* which one of its sessions goes from handshaking to connected.
C17_FailureTouchesOwnPairOnly ==
  [][/\ \A c \in 1..Len(conns) :
          (Disconnected(c) \/ \E which \in {"localError", "remoteError"} : ConnectionError(c, which))
          => /\ \A x \in (Shares \X Peers) \ {PairOf(c)} :
                  /\ Registered(x)' = Registered(x)
                  /\ Registered(x) = 0 \/ conns'[Registered(x)] = conns[Registered(x)]
             /\ \A i \in 1..Len(out') : out'[i].ev # "peer-candidate"
             /\ announced' = announced
     /\ \/ announced' = announced
        \/ \E c \in 1..Len(conns) :
             /\ conns[c].state = "handshaking"
             /\ conns'[c].state = "connected"
             /\ announced' = announced \cup {<<conns[c].adapter, conns[c].peer>>}]_vars

\* the session of an unannounced peer was disconnected while another pair's
\* session is registered and connected
C17_Witness ==
  \E i \in 1..Len(out) :
    /\ out[i].ev = "disconnected"
    /\ \A a \in BaseAdapters : <<a, out[i].peer>> \notin announced
    /\ \E x \in Shares \X Peers :
         /\ x # <<out[i].share, out[i].peer>>
         /\ Registered(x) # 0
         /\ conns[Registered(x)].state = "connected"

\* C18: a session whose engine emitted disconnected is not in the registry,
\* the disconnected event is emitted outward with its share and peer, and a
\* peer-candidate comes from the session registered for its pair, never from a
\* closed or superseded one.
C18_DisconnectedSessionRemoved ==
  /\ \A c \in 1..Len(conns) :
       conns[c].state = "closed" => Registered(PairOf(c)) # c
  /\ \A i \in 1..Len(out) :
       out[i].ev = "peer-candidate" =>
         Registered(<<out[i].share, out[i].peer>>) = out[i].num

\* e is the outcome of the base adapter's peer-disconnected: the event
\* forwarded to the repository, or the handler's exception
PeerDisconnectedOutcome(e) ==
  /\ e.adapter \in BaseAdapters
  /\ \/ e.ev = "peer-disconnected"
     \/ e.ev = "throw" /\ e.info = "TypeError" /\ e.share = ""

\* C19: when the base adapter has signalled peer-disconnected for p, the
\* handler has not thrown, the event is forwarded, p is no longer a known peer
\* of that adapter, and no session toward p is registered.
C19_PeerDisconnectedForgetsPeer ==
  \A i \in 1..Len(out) :
    PeerDisconnectedOutcome(out[i]) =>
      /\ out[i].ev = "peer-disconnected"
      /\ out[i].peer \notin Range(peers[out[i].adapter])
      /\ \A s \in Shares : Registered(<<s, out[i].peer>>) = 0

\* C20: a peer id seen on two base adapters is two peers.  Once no creation
\* is in progress, every adapter has constructed a session of its own for
\* each share and each of its peers; a handshake frame that arrived on an
\* adapter is delivered to a session of that adapter; and a peer-candidate is
\* emitted on the adapter of the session that connected.
C20_PeersScopedToAdapter ==
  /\ tasks = {} =>
       \A i \in 1..Len(adapters) : \A p \in Range(peers[adapters[i]]) :
         \A s \in Range(shares) :
           \E c \in 1..Len(conns) :
             /\ conns[c].adapter = adapters[i]
             /\ conns[c].share = s
             /\ conns[c].peer = p
  /\ \A i \in 1..Len(out) :
       out[i].ev = "delivered" =>
         conns[Registered(<<out[i].share, out[i].peer>>)].adapter = out[i].adapter
  /\ \A i \in 1..Len(out) :
       out[i].ev = "peer-candidate" => conns[out[i].num].adapter = out[i].adapter

\* A store write of #saveState is in flight
SavePending == \E t \in tasks : t.kind \in {"joined", "updated"}

\* C21: overlapping store writes are serialized.  The shares change only in
\* the joined handler, which triggers a save in the same step, so the last
\* triggered save serialized the shares as they are now: once no write is in
\* flight, the store holds the serialization of the current shares.
C21_LastSaveWins ==
  (store.present /\ ~SavePending) => store.shares = SerializedState(St)

\* C22: once the load and every pending save have completed, every share id
\* that was in the store's blob at construction is still in the store's blob.
C22_EarlySaveKeepsPersistedShares ==
  (loaded /\ ~SavePending) =>
    /\ store.present
    /\ BlobIds(ConstructionStore.shares) \subseteq BlobIds(store.shares)
====
